---- MODULE Spec2Model ----
(***************************************************************************)
(* Model of scripts/verify_gpg.py: one run of main(), which downloads the  *)
(* gettext tarball and its detached signature with mirror fallback,        *)
(* imports the trusted keys with keyserver fallback, verifies the          *)
(* signature and decides the exit code from --skip-verify and              *)
(* --allow-insecure.  The network (what each mirror answers for each       *)
(* file), the configuration files and the command line are chosen in Init; *)
(* gpg's answers are chosen when gpg is run.                               *)
(***************************************************************************)
EXTENDS Integers, Sequences, FiniteSets, TLC

\* ---------------------------------------------------------------- bounds
MaxMirrors == 2          \* longest mirrors.txt considered

Mirrors == {"m1", "m2"}  \* mirror base URLs that may appear in a list

\* -------------------------------------------------------------- constants
Files == {"tarball", "sig"}

None == "none"

NoError == [file |-> "none", mirror |-> "none", err |-> "none"]

\* What a mirror does for a file:
\*   ok      - 2xx status and the whole body is streamed
\*   error   - requests.get or raise_for_status raises RequestException
\*   partial - 2xx status, then iter_content raises RequestException after
\*             the destination was opened and some chunks were written
Resp == {"ok", "error", "partial"}

\* What one `gpg --recv-keys` run does.
KsResp == {"ok", "timeout", "failed", "nogpg"}

\* What `gpg --verify` does.
VerifyResp == {"good", "bad", "nogpg"}

keyservers ==
    << "hkps://keys.openpgp.org",
       "hkps://keyserver.ubuntu.com",
       "hkps://pgp.mit.edu" >>

Banner == "============================================================"

SkipWarning ==
    << Banner, "WARNING: Skipping GPG verification (--skip-verify)", Banner >>

NoSigWarning ==
    << Banner, "WARNING: Could not download signature, continuing anyway", Banner >>

NoKeysWarning ==
    << Banner, "WARNING: Could not import GPG keys, continuing anyway", Banner >>

TamperLine == "WARNING: This tarball could be tampered with!"

\* the verification-failed banner without its last line
GenericVerifyWarning ==
    << Banner, "WARNING: GPG signature verification FAILED!",
       "WARNING: Continuing build anyway (--allow-insecure)", Banner >>

VerifyFailedWarning ==
    << Banner, "WARNING: GPG signature verification FAILED!",
       "WARNING: Continuing build anyway (--allow-insecure)",
       TamperLine, Banner >>

\* ------------------------------------------------------------------ state
VARIABLES
    skip_verify,     \* args.skip_verify
    allow_insecure,  \* args.allow_insecure
    mirror_arg,      \* args.mirror, None when --mirror is not given
    keys_exists,     \* gpg-keys.txt exists
    mirrors_exists,  \* mirrors.txt exists
    mirrors_cfg,     \* the non-empty, non-comment lines of mirrors.txt
    net,             \* net[m][f]: what mirror m answers for file f
    pc,              \* position of main
    mirror_urls,     \* main's mirror_urls
    idx,             \* position of the running mirror / keyserver loop
    last_error,      \* download_file_with_retry's last_error
    requests,        \* every requests.get issued, in order
    errors,          \* every "Failed to download from" line on stderr
    disk,            \* disk[f]: state of the destination path of f
    dl,              \* dl[f]: result of download_file_with_retry for f
    used,            \* used[f]: list position of the mirror f came from
    ks_log,          \* every gpg --recv-keys run, in order
    imported,        \* result of import_gpg_keys
    gpg_verify,      \* what gpg --verify answered, None before it is run
    verified,        \* result of verify_signature
    exit_code,       \* exit code of the process, -1 while running
    warning,         \* the warning banner printed on stdout
    verified_msg,    \* "Successfully downloaded and verified" was printed
    calls,           \* the stages main has entered, in order
    lv_pc,           \* list_versions.py: position of get_versions
    lv_idx,          \* list_versions.py: position of the mirror loop
    lv_log,          \* list_versions.py: every requests.get and its answer
    lv_last_error,   \* list_versions.py: get_versions's last_error
    lv_result,       \* list_versions.py: the list get_versions returned
    lv_exit,         \* list_versions.py: exit code, -1 while running
    dg_status        \* Dagger pipeline: dg_status[n], state of step n

\* the state of list_versions.py
lvVars == << lv_pc, lv_idx, lv_log, lv_last_error, lv_result, lv_exit >>

\* the state of the Dagger pipeline
dgVars == << dg_status >>

\* what no step of verify_gpg.py changes: its command line, its
\* configuration files, the network, and the state of the two other programs
envVars == << skip_verify, allow_insecure, mirror_arg, keys_exists,
              mirrors_exists, mirrors_cfg, net, lvVars, dgVars >>

dlVars == << last_error, requests, errors, disk, dl, used >>

gpgVars == << ks_log, imported, gpg_verify, verified >>

outVars == << exit_code, warning, verified_msg >>

vars == << skip_verify, allow_insecure, mirror_arg, keys_exists,
           mirrors_exists, mirrors_cfg, net, pc, mirror_urls, idx,
           last_error, requests, errors, disk, dl, used, ks_log, imported,
           gpg_verify, verified, exit_code, warning, verified_msg, calls,
           lv_pc, lv_idx, lv_log, lv_last_error, lv_result, lv_exit,
           dg_status >>

\* the state of verify_gpg.py
scriptVars == << skip_verify, allow_insecure, mirror_arg, keys_exists,
                 mirrors_exists, mirrors_cfg, net, pc, mirror_urls, idx,
                 dlVars, gpgVars, outVars, calls >>

\* ---------------------------------------------------- Dagger pipeline steps
\* dag.http(version.tarball_url), dag.http(version.sig_url)
HttpSteps == {"http tarball", "http signature"}

\* the with_exec steps of fetch_tarball, in the order of the chain
FetchChain_unverified_extract ==
    << "apk add gnupg", "gpg --recv-keys", "mkdir -p /src",
       "tar -xvf /source.tar", "gpg --verify" >>

FetchChain ==
    << "apk add gnupg", "gpg --recv-keys", "gpg --verify", "mkdir -p /src",
       "tar -xvf /source.tar" >>

\* the with_exec steps of build_linux_amd64
Amd64Chain ==
    << "amd64: apt update", "amd64: apt install build-essential",
       "amd64: ./configure", "amd64: make install" >>

\* the with_exec steps of build_linux_aaarch64
Aarch64Chain ==
    << "aarch64: apt update", "aarch64: apt install build-essential",
       "aarch64: apt install crossbuild-essential-arm64",
       "aarch64: ./configure", "aarch64: make install" >>

\* the with_exec steps of teste_build, in the order of mapping
PackChain ==
    << "mkdir -p /target", "tar linux-amd64", "tar linux-aarch64", "tar src" >>

Chains == { FetchChain, Amd64Chain, Aarch64Chain, PackChain }

Range(s) == { s[i] : i \in 1..Len(s) }

Steps == HttpSteps \cup UNION { Range(c) : c \in Chains }

Last(c) == c[Len(c)]

\* the step before n in its chain
Before(n) ==
    UNION { { c[i - 1] : i \in { j \in 2..Len(c) : c[j] = n } } : c \in Chains }

\* the directories and files a step gets from another chain: with_file of
\* the two downloads before gpg runs, with_directory("/src", source) in the
\* two builds, with_directory of each mapping entry before its tar
Inputs(n) ==
    CASE n = "gpg --recv-keys" -> HttpSteps
      [] n = Amd64Chain[1] -> { Last(FetchChain) }
      [] n = Aarch64Chain[1] -> { Last(FetchChain) }
      [] n = "tar linux-amd64" -> { Last(Amd64Chain) }
      [] n = "tar linux-aarch64" -> { Last(Aarch64Chain) }
      [] n = "tar src" -> { Last(FetchChain) }
      [] OTHER -> {}

\* a step runs on the result of the steps it depends on
Deps(n) == Before(n) \cup Inputs(n)

\* ------------------------------------------------------- list_versions.py
lv_mirrors ==
    << "https://ftp.gnu.org/gnu/gettext/",
       "https://ftpmirror.gnu.org/gettext/",
       "https://mirrors.ocf.berkeley.edu/gnu/gettext/",
       "https://mirror.dogado.de/gnu/gettext/",
       "https://mirror.checkdomain.de/gnu/gettext/",
       "https://ftp.cc.uoc.gr/mirrors/gnu/gettext/" >>

\* The text of a link of the version table, cut where the regex looks:
\* a prefix, the version, and the extensions after it.  Versions are numbered
\* in the order sorted() gives their strings.
LinkNames ==
    { [prefix |-> "gettext-", version |-> 25, ext |-> << ".tar", ".gz" >>],
      [prefix |-> "gettext-", version |-> 26, ext |-> << ".tar", ".gz" >>],
      [prefix |-> "gettext-", version |-> 26, ext |-> << ".tar", ".gz", ".sig" >>],
      [prefix |-> "gettext-", version |-> 27, ext |-> << ".tar", ".xz" >>] }

\* What a mirror answers: a RequestException, a page without a table, or a
\* page whose table has some links.
Pages ==
    { [kind |-> "error", links |-> {}], [kind |-> "notable", links |-> {}] }
        \cup { [kind |-> "table", links |-> l] : l \in SUBSET LinkNames }

ListOff ==
    /\ lv_pc = "off"
    /\ lv_idx = 1
    /\ lv_log = << >>
    /\ lv_last_error = None
    /\ lv_result = << >>
    /\ lv_exit = -1

DaggerOff == dg_status = [n \in Steps |-> "off"]

SeqsUpTo(S, n) == UNION { [1..k -> S] : k \in 0..n }

Init ==
    /\ skip_verify \in BOOLEAN
    /\ allow_insecure \in BOOLEAN
    /\ mirror_arg \in Mirrors \cup {None}
    /\ keys_exists \in BOOLEAN
    /\ mirrors_exists \in BOOLEAN
    /\ mirrors_cfg \in SeqsUpTo(Mirrors, MaxMirrors)
    /\ (~mirrors_exists => mirrors_cfg = << >>)
    /\ net \in [Mirrors -> [Files -> Resp]]
    /\ pc = "read_keys"
    /\ mirror_urls = << >>
    /\ idx = 1
    /\ last_error = NoError
    /\ requests = << >>
    /\ errors = << >>
    /\ disk = [f \in Files |-> "absent"]
    /\ dl = [f \in Files |-> "pending"]
    /\ used = [f \in Files |-> 0]
    /\ ks_log = << >>
    /\ imported = "pending"
    /\ gpg_verify = None
    /\ verified = "pending"
    /\ exit_code = -1
    /\ warning = << >>
    /\ verified_msg = FALSE
    /\ calls = << >>
    /\ ListOff
    /\ DaggerOff

\* ------------------------------------------------------- read_config_file
\* read_config_file with a bare sys.exit(), which exits with code 0
config_missing_exit0 ==
    /\ pc' = "done"
    /\ exit_code' = 0
    /\ UNCHANGED << envVars, mirror_urls, idx, dlVars, gpgVars, warning,
                    verified_msg, calls >>

\* sys.exit(1) of read_config_file when the file is missing.
config_missing ==
    /\ pc' = "done"
    /\ exit_code' = 1
    /\ UNCHANGED << envVars, mirror_urls, idx, dlVars, gpgVars, warning,
                    verified_msg, calls >>

\* read_keys with a read_config_file that returns [] for a missing file
read_keys_nocheck ==
    /\ pc = "read_keys"
    /\ pc' = "read_mirrors"
    /\ UNCHANGED << envVars, mirror_urls, idx, dlVars, gpgVars, outVars,
                    calls >>

\* gpg_keys = read_config_file("gpg-keys.txt")
read_keys ==
    /\ pc = "read_keys"
    /\ IF keys_exists
       THEN /\ pc' = "read_mirrors"
            /\ UNCHANGED << envVars, mirror_urls, idx, dlVars, gpgVars,
                            outVars, calls >>
       ELSE config_missing

\* build_mirror_urls that appends the --mirror URL after the defaults
build_mirror_urls_append(arg, mirrors) ==
    IF arg # None THEN mirrors \o << arg >> ELSE mirrors

\* Build mirror list (custom mirror first if provided, then defaults)
build_mirror_urls(arg, mirrors) ==
    IF arg # None THEN << arg >> \o mirrors ELSE mirrors

\* mirrors = read_config_file("mirrors.txt"), then mirror_urls is built
read_mirrors ==
    /\ pc = "read_mirrors"
    /\ IF mirrors_exists
       THEN /\ mirror_urls' = build_mirror_urls(mirror_arg, mirrors_cfg)
            /\ pc' = "dl_tarball"
            /\ idx' = 1
            /\ last_error' = NoError
            /\ calls' = Append(calls, "tarball")
            /\ UNCHANGED << envVars, requests, errors, disk, dl, used,
                            gpgVars, outVars >>
       ELSE config_missing

\* ----------------------------------------------- download_file_with_retry
DlPc(f) == IF f = "tarball" THEN "dl_tarball" ELSE "dl_sig"

AfterPc(f) == IF f = "tarball" THEN "after_tarball" ELSE "after_sig"

\* for mirror in mirrors: the loop has another mirror to try
HasNext(i, mirrors) == i <= Len(mirrors)

\* the mirror the i-th iteration of the loop contacts
MirrorAt(mirrors, i) == mirrors[i]

Request(f, i) == [file |-> f, mirror |-> MirrorAt(mirror_urls, i), pos |-> i]

Failure(f, i, e) == [file |-> f, mirror |-> MirrorAt(mirror_urls, i), err |-> e]

\* download_ok without its `return True`: the file is written and the loop
\* goes on to the next mirror.
download_ok_noreturn(f) ==
    /\ pc = DlPc(f)
    /\ HasNext(idx, mirror_urls)
    /\ net[MirrorAt(mirror_urls, idx)][f] = "ok"
    /\ requests' = Append(requests, Request(f, idx))
    /\ disk' = [disk EXCEPT ![f] = "complete"]
    /\ idx' = idx + 1
    /\ UNCHANGED << envVars, pc, mirror_urls, last_error, errors, dl, used,
                    gpgVars, outVars, calls >>

\* One iteration whose mirror serves the whole file: the destination is
\* opened with 'wb', every chunk is written, and the function returns True.
download_ok(f) ==
    /\ pc = DlPc(f)
    /\ HasNext(idx, mirror_urls)
    /\ net[MirrorAt(mirror_urls, idx)][f] = "ok"
    /\ requests' = Append(requests, Request(f, idx))
    /\ disk' = [disk EXCEPT ![f] = "complete"]
    /\ dl' = [dl EXCEPT ![f] = "ok"]
    /\ used' = [used EXCEPT ![f] = idx]
    /\ pc' = AfterPc(f)
    /\ UNCHANGED << envVars, mirror_urls, idx, last_error, errors, gpgVars,
                    outVars, calls >>

\* download_error with an except clause that only continues: nothing is
\* printed and last_error is not set
download_error_silent(f) ==
    /\ pc = DlPc(f)
    /\ HasNext(idx, mirror_urls)
    /\ net[MirrorAt(mirror_urls, idx)][f] = "error"
    /\ requests' = Append(requests, Request(f, idx))
    /\ idx' = idx + 1
    /\ UNCHANGED << envVars, pc, mirror_urls, last_error, errors, disk, dl,
                    used, gpgVars, outVars, calls >>

\* One iteration in which requests.get or raise_for_status raises
\* RequestException: the error is printed, kept in last_error, and the loop
\* continues; the destination is not opened.
download_error(f) ==
    /\ pc = DlPc(f)
    /\ HasNext(idx, mirror_urls)
    /\ net[MirrorAt(mirror_urls, idx)][f] = "error"
    /\ requests' = Append(requests, Request(f, idx))
    /\ errors' = Append(errors, Failure(f, idx, "error"))
    /\ last_error' = Failure(f, idx, "error")
    /\ idx' = idx + 1
    /\ UNCHANGED << envVars, pc, mirror_urls, disk, dl, used, gpgVars,
                    outVars, calls >>

\* One iteration in which iter_content raises RequestException after the
\* destination was opened (truncated) and some chunks were written: the
\* except clause only prints and records the error; nothing removes the file.
download_partial(f) ==
    /\ pc = DlPc(f)
    /\ HasNext(idx, mirror_urls)
    /\ net[MirrorAt(mirror_urls, idx)][f] = "partial"
    /\ requests' = Append(requests, Request(f, idx))
    /\ disk' = [disk EXCEPT ![f] = "partial"]
    /\ errors' = Append(errors, Failure(f, idx, "partial"))
    /\ last_error' = Failure(f, idx, "partial")
    /\ idx' = idx + 1
    /\ UNCHANGED << envVars, pc, mirror_urls, dl, used, gpgVars, outVars,
                    calls >>

\* download_exhausted with `return True` as the function's last line
download_exhausted_true(f) ==
    /\ pc = DlPc(f)
    /\ ~HasNext(idx, mirror_urls)
    /\ dl' = [dl EXCEPT ![f] = "ok"]
    /\ pc' = AfterPc(f)
    /\ UNCHANGED << envVars, mirror_urls, idx, last_error, requests, errors,
                    disk, used, gpgVars, outVars, calls >>

\* The loop is exhausted: "Failed to download ... from all mirrors", the
\* last error is printed when there is one, and the function returns False.
download_exhausted(f) ==
    /\ pc = DlPc(f)
    /\ ~HasNext(idx, mirror_urls)
    /\ dl' = [dl EXCEPT ![f] = "failed"]
    /\ pc' = AfterPc(f)
    /\ UNCHANGED << envVars, mirror_urls, idx, last_error, requests, errors,
                    disk, used, gpgVars, outVars, calls >>

download_file_with_retry(f) ==
    \/ download_ok(f)
    \/ download_error(f)
    \/ download_partial(f)
    \/ download_exhausted(f)

\* ---------------------------------------------------------------- main
\* return <code> of main, after printing the warning banner w (if any)
Return(code, w) ==
    /\ pc' = "done"
    /\ exit_code' = code
    /\ warning' = w
    /\ UNCHANGED << envVars, mirror_urls, idx, dlVars, gpgVars,
                    verified_msg, calls >>

\* TrustFailure with `return 0` in place of the final `return 1`
TrustFailure_return0(w) ==
    IF allow_insecure THEN Return(0, w) ELSE Return(0, << >>)

\* the three `if args.allow_insecure: ... return 0` / `return 1` branches
TrustFailure(w) ==
    IF allow_insecure THEN Return(0, w) ELSE Return(1, << >>)

\* main_after_tarball with the --allow-insecure block of the later stages
\* copied into the tarball check
main_after_tarball_insecure ==
    /\ pc = "after_tarball"
    /\ IF dl["tarball"] # "ok"
       THEN TrustFailure(NoSigWarning)
       ELSE IF skip_verify
       THEN Return(0, SkipWarning)
       ELSE /\ pc' = "dl_sig"
            /\ idx' = 1
            /\ last_error' = NoError
            /\ calls' = Append(calls, "sig")
            /\ UNCHANGED << envVars, mirror_urls, requests, errors, disk,
                            dl, used, gpgVars, outVars >>

\* main_after_tarball without the `if args.skip_verify` block
main_after_tarball_noskip ==
    /\ pc = "after_tarball"
    /\ IF dl["tarball"] # "ok"
       THEN Return(1, << >>)
       ELSE /\ pc' = "dl_sig"
            /\ idx' = 1
            /\ last_error' = NoError
            /\ calls' = Append(calls, "sig")
            /\ UNCHANGED << envVars, mirror_urls, requests, errors, disk,
                            dl, used, gpgVars, outVars >>

\* lines 160-171: after the tarball download
main_after_tarball ==
    /\ pc = "after_tarball"
    /\ IF dl["tarball"] # "ok"
       THEN Return(1, << >>)
       ELSE IF skip_verify
       THEN Return(0, SkipWarning)
       ELSE /\ pc' = "dl_sig"
            /\ idx' = 1
            /\ last_error' = NoError
            /\ calls' = Append(calls, "sig")
            /\ UNCHANGED << envVars, mirror_urls, requests, errors, disk,
                            dl, used, gpgVars, outVars >>

\* main_after_sig that ignores the result of the signature download
main_after_sig_nocheck ==
    /\ pc = "after_sig"
    /\ pc' = "import"
    /\ idx' = 1
    /\ calls' = Append(calls, "import")
    /\ UNCHANGED << envVars, mirror_urls, dlVars, gpgVars, outVars >>

\* lines 171-180: after the signature download
main_after_sig ==
    /\ pc = "after_sig"
    /\ IF dl["sig"] # "ok"
       THEN TrustFailure(NoSigWarning)
       ELSE /\ pc' = "import"
            /\ idx' = 1
            /\ calls' = Append(calls, "import")
            /\ UNCHANGED << envVars, mirror_urls, dlVars, gpgVars, outVars >>

\* -------------------------------------------------------- import_gpg_keys
\* import_attempt whose TimeoutExpired clause returns False instead of
\* continuing
import_attempt_timeout_returns ==
    /\ pc = "import"
    /\ HasNext(idx, keyservers)
    /\ \E r \in KsResp :
         /\ ks_log' = Append(ks_log, [keyserver |-> keyservers[idx], resp |-> r])
         /\ CASE r = "ok" ->
                   /\ imported' = "ok"
                   /\ pc' = "after_import"
                   /\ idx' = idx
              [] r \in {"nogpg", "timeout"} ->
                   /\ imported' = "failed"
                   /\ pc' = "after_import"
                   /\ idx' = idx
              [] OTHER ->
                   /\ idx' = idx + 1
                   /\ UNCHANGED << imported, pc >>
    /\ UNCHANGED << envVars, mirror_urls, dlVars, gpg_verify, verified, outVars,
                    calls >>

\* import_attempt whose FileNotFoundError clause continues with the next
\* keyserver
import_attempt_nogpg_continues ==
    /\ pc = "import"
    /\ HasNext(idx, keyservers)
    /\ \E r \in KsResp :
         /\ ks_log' = Append(ks_log, [keyserver |-> keyservers[idx], resp |-> r])
         /\ CASE r = "ok" ->
                   /\ imported' = "ok"
                   /\ pc' = "after_import"
                   /\ idx' = idx
              [] OTHER ->
                   /\ idx' = idx + 1
                   /\ UNCHANGED << imported, pc >>
    /\ UNCHANGED << envVars, mirror_urls, dlVars, gpg_verify, verified, outVars,
                    calls >>

\* One iteration of the keyserver loop: gpg --recv-keys with timeout=30.
\*   ok      - return True
\*   timeout - TimeoutExpired, continue
\*   failed  - CalledProcessError, continue
\*   nogpg   - FileNotFoundError, return False
import_attempt ==
    /\ pc = "import"
    /\ HasNext(idx, keyservers)
    /\ \E r \in KsResp :
         /\ ks_log' = Append(ks_log, [keyserver |-> keyservers[idx], resp |-> r])
         /\ CASE r = "ok" ->
                   /\ imported' = "ok"
                   /\ pc' = "after_import"
                   /\ idx' = idx
              [] r = "nogpg" ->
                   /\ imported' = "failed"
                   /\ pc' = "after_import"
                   /\ idx' = idx
              [] OTHER ->
                   /\ idx' = idx + 1
                   /\ UNCHANGED << imported, pc >>
    /\ UNCHANGED << envVars, mirror_urls, dlVars, gpg_verify, verified, outVars,
                    calls >>

\* "Failed to import GPG keys from all keyservers", return False
import_exhausted ==
    /\ pc = "import"
    /\ ~HasNext(idx, keyservers)
    /\ imported' = "failed"
    /\ pc' = "after_import"
    /\ UNCHANGED << envVars, mirror_urls, idx, dlVars, ks_log, gpg_verify,
                    verified, outVars, calls >>

import_gpg_keys == import_attempt \/ import_exhausted

\* main_after_import without the `if args.allow_insecure` block
main_after_import_strict ==
    /\ pc = "after_import"
    /\ IF imported # "ok"
       THEN Return(1, << >>)
       ELSE /\ pc' = "verify"
            /\ calls' = Append(calls, "verify")
            /\ UNCHANGED << envVars, mirror_urls, idx, dlVars, gpgVars,
                            outVars >>

\* lines 180-189: after the key import
main_after_import ==
    /\ pc = "after_import"
    /\ IF imported # "ok"
       THEN TrustFailure(NoKeysWarning)
       ELSE /\ pc' = "verify"
            /\ calls' = Append(calls, "verify")
            /\ UNCHANGED << envVars, mirror_urls, idx, dlVars, gpgVars,
                            outVars >>

\* ------------------------------------------------------- verify_signature
\* VerifyResult of a subprocess.run without check=True: a non-zero exit
\* of gpg raises nothing
VerifyResult_nocheck(r) ==
    CASE r = "good" -> "ok"
      [] r = "bad" -> "ok"
      [] OTHER -> "raise"

\* what verify_signature returns for gpg's answer; "raise" is the
\* FileNotFoundError no except clause of verify_signature catches
VerifyResult(r) ==
    CASE r = "good" -> "ok"
      [] r = "bad" -> "failed"
      [] OTHER -> "raise"

\* gpg --verify signature tarball.  An uncaught exception leaves main with a
\* traceback and makes the interpreter exit with code 1.
verify_signature ==
    /\ pc = "verify"
    /\ \E r \in VerifyResp :
         /\ gpg_verify' = r
         /\ verified' = VerifyResult(r)
         /\ IF VerifyResult(r) = "raise"
            THEN /\ pc' = "done"
                 /\ exit_code' = 1
            ELSE /\ pc' = "after_verify"
                 /\ UNCHANGED exit_code
    /\ UNCHANGED << envVars, mirror_urls, idx, dlVars, ks_log, imported,
                    warning, verified_msg, calls >>

\* main_after_verify with `if verify_signature(...)`, the `not` missing
main_after_verify_inverted ==
    /\ pc = "after_verify"
    /\ IF verified = "ok"
       THEN TrustFailure(VerifyFailedWarning)
       ELSE /\ verified_msg' = TRUE
            /\ pc' = "done"
            /\ exit_code' = 0
            /\ UNCHANGED << envVars, mirror_urls, idx, dlVars, gpgVars,
                            warning, calls >>

\* lines 189-201: after the verification
main_after_verify ==
    /\ pc = "after_verify"
    /\ IF verified # "ok"
       THEN TrustFailure(VerifyFailedWarning)
       ELSE /\ verified_msg' = TRUE
            /\ pc' = "done"
            /\ exit_code' = 0
            /\ UNCHANGED << envVars, mirror_urls, idx, dlVars, gpgVars,
                            warning, calls >>

main ==
    \/ read_keys
    \/ read_mirrors
    \/ main_after_tarball
    \/ main_after_sig
    \/ main_after_import
    \/ main_after_verify

Next ==
    \/ main
    \/ \E f \in Files : download_file_with_retry(f)
    \/ import_gpg_keys
    \/ verify_signature

Spec == Init /\ [][Next]_vars

\* The interpreter runs the script to its end: a step that can be taken is
\* eventually taken.
FairSpec == Spec /\ WF_vars(Next)

TypeOK ==
    /\ pc \in {"read_keys", "read_mirrors", "dl_tarball", "after_tarball",
               "dl_sig", "after_sig", "import", "after_import", "verify",
               "after_verify", "done"}
    /\ exit_code \in {-1, 0, 1}
    /\ idx \in 1..(Len(mirror_urls) + Len(keyservers) + 1)
    /\ dl \in [Files -> {"pending", "ok", "failed"}]
    /\ disk \in [Files -> {"absent", "partial", "complete"}]

\* verify_gpg.py is not running
ScriptOff ==
    /\ skip_verify = FALSE
    /\ allow_insecure = FALSE
    /\ mirror_arg = None
    /\ keys_exists = TRUE
    /\ mirrors_exists = TRUE
    /\ mirrors_cfg = << >>
    /\ net = [m \in Mirrors |-> [f \in Files |-> "error"]]
    /\ pc = "off"
    /\ mirror_urls = << >>
    /\ idx = 1
    /\ last_error = NoError
    /\ requests = << >>
    /\ errors = << >>
    /\ disk = [f \in Files |-> "absent"]
    /\ dl = [f \in Files |-> "pending"]
    /\ used = [f \in Files |-> 0]
    /\ ks_log = << >>
    /\ imported = "pending"
    /\ gpg_verify = None
    /\ verified = "pending"
    /\ exit_code = -1
    /\ warning = << >>
    /\ verified_msg = FALSE
    /\ calls = << >>

\* ------------------------------------------ list_versions.py: get_versions
\* re.match(regex, name) finds "gettext-", a version and ".tar.gz"
LinkMatch(n) ==
    /\ n.prefix = "gettext-"
    /\ Len(n.ext) >= 2
    /\ n.ext[1] = ".tar"
    /\ n.ext[2] = ".gz"

\* match.group('sig'): ".sig" follows ".tar.gz"
LinkSig(n) == Len(n.ext) >= 3 /\ n.ext[3] = ".sig"

\* PageVersions without the `if not match.group('sig')` test
PageVersions_withsig(links) ==
    { n.version : n \in { m \in links : LinkMatch(m) } }

\* the set `versions` after the loop over the links of the table
PageVersions(links) ==
    { n.version : n \in { m \in links : LinkMatch(m) /\ ~LinkSig(m) } }

RECURSIVE Sorted(_)
\* sorted(versions)
Sorted(S) ==
    IF S = {} THEN << >>
    ELSE LET m == CHOOSE x \in S : \A y \in S : x <= y
         IN  << m >> \o Sorted(S \ {m})

\* One iteration of the mirror loop of get_versions.
\*   error   - RequestException: printed, kept in last_error, continue
\*   notable - no <table> in the page: warning, continue
\*   table   - the versions of the tarball links; returned sorted when there
\*             are some (main prints them and returns 0), else continue
get_versions_attempt ==
    /\ lv_pc = "loop"
    /\ HasNext(lv_idx, lv_mirrors)
    /\ \E page \in Pages :
         /\ lv_log' = Append(lv_log, [url |-> lv_mirrors[lv_idx], page |-> page])
         /\ CASE page.kind = "error" ->
                   /\ lv_last_error' = lv_mirrors[lv_idx]
                   /\ lv_idx' = lv_idx + 1
                   /\ UNCHANGED << lv_pc, lv_result, lv_exit >>
              [] page.kind = "notable" ->
                   /\ lv_idx' = lv_idx + 1
                   /\ UNCHANGED << lv_pc, lv_last_error, lv_result, lv_exit >>
              [] OTHER ->
                   IF PageVersions(page.links) # {}
                   THEN /\ lv_result' = Sorted(PageVersions(page.links))
                        /\ lv_pc' = "done"
                        /\ lv_exit' = 0
                        /\ UNCHANGED << lv_idx, lv_last_error >>
                   ELSE /\ lv_idx' = lv_idx + 1
                        /\ UNCHANGED << lv_pc, lv_last_error, lv_result,
                                        lv_exit >>
    /\ UNCHANGED << scriptVars, dgVars >>

\* "Failed to fetch versions from all mirrors!", sys.exit(1)
get_versions_exhausted ==
    /\ lv_pc = "loop"
    /\ ~HasNext(lv_idx, lv_mirrors)
    /\ lv_pc' = "done"
    /\ lv_exit' = 1
    /\ UNCHANGED << lv_idx, lv_log, lv_last_error, lv_result, scriptVars,
                    dgVars >>

get_versions == get_versions_attempt \/ get_versions_exhausted

ListInit ==
    /\ ScriptOff
    /\ DaggerOff
    /\ lv_pc = "loop"
    /\ lv_idx = 1
    /\ lv_log = << >>
    /\ lv_last_error = None
    /\ lv_result = << >>
    /\ lv_exit = -1

ListNext == get_versions

ListSpec == ListInit /\ [][ListNext]_vars

\* -------------------------------------- Dagger pipeline: teste_build
\* a step can be run: it was not run yet and every step it depends on
\* succeeded
Runnable(n) ==
    /\ dg_status[n] = "pending"
    /\ \A d \in Deps(n) : dg_status[d] = "ok"

\* the command of step n exits with 0 (the download of an http step
\* succeeds)
step_succeeds(n) ==
    /\ Runnable(n)
    /\ dg_status' = [dg_status EXCEPT ![n] = "ok"]
    /\ UNCHANGED << scriptVars, lvVars >>

\* the command of step n exits with another code (the download fails):
\* nothing that depends on the step is run
step_fails(n) ==
    /\ Runnable(n)
    /\ dg_status' = [dg_status EXCEPT ![n] = "failed"]
    /\ UNCHANGED << scriptVars, lvVars >>

teste_build == \E n \in Steps : step_succeeds(n) \/ step_fails(n)

DaggerInit ==
    /\ ScriptOff
    /\ ListOff
    /\ dg_status = [n \in Steps |-> "pending"]

DaggerNext == teste_build

DaggerSpec == DaggerInit /\ [][DaggerNext]_vars

\* ================================================================ claims
ReqsOf(f) == SelectSeq(requests, LAMBDA r : r.file = f)

ErrorsOf(f) == SelectSeq(errors, LAMBDA e : e.file = f)

\* some mirror of the list serves file f
Serves(f) == \E i \in 1..Len(mirror_urls) : net[mirror_urls[i]][f] = "ok"

\* list position of the first mirror serving f
FirstServing(f) ==
    CHOOSE i \in 1..Len(mirror_urls) :
        /\ net[mirror_urls[i]][f] = "ok"
        /\ \A j \in 1..(i - 1) : net[mirror_urls[j]][f] # "ok"

Returned(f) == dl[f] # "pending"

\* C1: when the mirror list has a mirror serving the file, a finished
\* download_file_with_retry has returned success with the file taken from
\* the first serving mirror; the requests it issued are exactly the list
\* entries up to that mirror, once each and in list order, so that no later
\* mirror was contacted.
C1_FirstServingMirror ==
    \A f \in Files :
        (Returned(f) /\ Serves(f)) =>
            /\ dl[f] = "ok"
            /\ used[f] = FirstServing(f)
            /\ disk[f] = "complete"
            /\ ReqsOf(f) = [i \in 1..FirstServing(f) |->
                              [file |-> f, mirror |-> mirror_urls[i], pos |-> i]]

\* a download that succeeded on the second of three list entries
C1_Witness ==
    /\ dl["tarball"] = "ok"
    /\ used["tarball"] = 2
    /\ Len(mirror_urls) = 3
    /\ Len(ReqsOf("tarball")) = 2

AllSucceeded ==
    /\ dl["tarball"] = "ok"
    /\ dl["sig"] = "ok"
    /\ imported = "ok"
    /\ gpg_verify = "good"
    /\ verified = "ok"

DefaultFlags == ~skip_verify /\ ~allow_insecure

\* C2: without --skip-verify and --allow-insecure a run ends with exit code
\* 0 only if both downloads, the key import and the verification succeeded,
\* and then without a warning; no failure ends in that outcome.
C2_StrictExitZero ==
    (pc = "done" /\ DefaultFlags /\ exit_code = 0) =>
        /\ AllSucceeded
        /\ warning = << >>
        /\ verified_msg

\* a strict run that verified and exited 0
C2_Witness ==
    /\ pc = "done"
    /\ DefaultFlags
    /\ exit_code = 0
    /\ AllSucceeded

ConfigPresent == keys_exists /\ mirrors_exists

\* C3 as stated: with --skip-verify a run with its configuration and a
\* non-empty mirror list ends in proceed-with-warning, exit code 0, whatever
\* the mirrors answer.
C3_Original ==
    (pc = "done" /\ skip_verify /\ ConfigPresent /\ mirror_urls # << >>) =>
        /\ exit_code = 0
        /\ warning = SkipWarning

\* C3 amended: with --skip-verify no signature download, key import or
\* verification is ever attempted; a run that has downloaded the tarball
\* reaches proceed-with-warning with exit code 0 whatever the mirrors answer
\* for the signature, and a run whose tarball download failed ends with exit
\* code 1.
C3_SkipVerify ==
    /\ [](skip_verify =>
            /\ ReqsOf("sig") = << >>
            /\ ks_log = << >>
            /\ gpg_verify = None
            /\ (pc = "done" /\ dl["tarball"] = "ok" =>
                   exit_code = 0 /\ warning = SkipWarning /\ ~verified_msg)
            /\ (pc = "done" /\ dl["tarball"] # "ok" =>
                   exit_code = 1 /\ warning = << >>))
    /\ ((skip_verify /\ dl["tarball"] = "ok") ~>
            (pc = "done" /\ exit_code = 0 /\ warning = SkipWarning))

\* --skip-verify, tarball from the second list entry, no mirror serving the
\* signature
C3_Witness ==
    /\ pc = "done"
    /\ skip_verify
    /\ exit_code = 0
    /\ used["tarball"] = 2
    /\ \A m \in Mirrors : net[m]["sig"] = "error"

\* C4: with default flags, when gpg --verify fails after both downloads and
\* the key import succeeded, main ends with exit code 1, without a warning
\* banner and without the success line.
C4_StrictVerifyFailure ==
    /\ []((DefaultFlags /\ gpg_verify = "bad") =>
            /\ dl["tarball"] = "ok" /\ dl["sig"] = "ok" /\ imported = "ok"
            /\ pc \in {"after_verify", "done"}
            /\ (pc = "done" =>
                   exit_code = 1 /\ warning = << >> /\ ~verified_msg))
    /\ ((DefaultFlags /\ gpg_verify = "bad") ~> (pc = "done" /\ exit_code = 1))

C4_Witness ==
    /\ pc = "done"
    /\ DefaultFlags
    /\ gpg_verify = "bad"
    /\ exit_code = 1

MentionsTampering(w) == \E i \in 1..Len(w) : w[i] = TamperLine

\* C5: with --allow-insecure and without --skip-verify, when gpg --verify
\* fails main ends with exit code 0 after printing a warning banner that
\* says the tarball could be tampered with.
C5_InsecureVerifyFailure ==
    /\ []((allow_insecure /\ ~skip_verify /\ gpg_verify = "bad") =>
            /\ pc \in {"after_verify", "done"}
            /\ (pc = "done" =>
                   /\ exit_code = 0
                   /\ MentionsTampering(warning)
                   /\ ~verified_msg))
    /\ ((allow_insecure /\ ~skip_verify /\ gpg_verify = "bad") ~>
            (pc = "done" /\ exit_code = 0))

C5_Witness ==
    /\ pc = "done"
    /\ allow_insecure
    /\ ~skip_verify
    /\ gpg_verify = "bad"
    /\ exit_code = 0

\* no list entry serves the signature
SigUnserved == ~Serves("sig")

\* every keyserver was tried and timed out or failed
AllKeyserversFailed ==
    /\ Len(ks_log) = Len(keyservers)
    /\ \A i \in 1..Len(ks_log) : ks_log[i].resp \in {"timeout", "failed"}

\* how a run ends after a trust failure reported with banner w
EndsByPolicy(w) ==
    /\ exit_code = 0 <=> allow_insecure
    /\ exit_code = 1 <=> ~allow_insecure
    /\ warning = IF allow_insecure THEN w ELSE << >>
    /\ ~verified_msg

\* C6: when the signature download failed on every mirror, or the key import
\* failed on every keyserver, the run ends with exit code 0 and a warning
\* iff --allow-insecure is set, and with exit code 1 otherwise; after a
\* failed signature download no key import and no verification is attempted,
\* after a failed key import no verification.
C6_TrustFailurePolicy ==
    /\ (Returned("sig") /\ SigUnserved) =>
          /\ dl["sig"] = "failed"
          /\ pc \in {"after_sig", "done"}
          /\ ks_log = << >>
          /\ imported = "pending"
          /\ gpg_verify = None
          /\ (pc = "done" => EndsByPolicy(NoSigWarning))
    /\ (AllKeyserversFailed /\ pc # "import") =>
          /\ imported = "failed"
          /\ pc \in {"after_import", "done"}
          /\ gpg_verify = None
          /\ verified = "pending"
          /\ (pc = "done" => EndsByPolicy(NoKeysWarning))

\* --allow-insecure, every keyserver failed, exit code 0
C6_Witness ==
    /\ pc = "done"
    /\ allow_insecure
    /\ AllKeyserversFailed
    /\ exit_code = 0
    /\ warning = NoKeysWarning

\* the errors of the list entries, in list order
MirrorErrors(f) ==
    [i \in 1..Len(mirror_urls) |->
        [file |-> f, mirror |-> mirror_urls[i], err |-> net[mirror_urls[i]][f]]]

\* the errors download_file_with_retry still holds when it returns
Retained == IF last_error = NoError THEN << >> ELSE << last_error >>

C8_NoPartialFile ==
    \A f \in Files :
        /\ dl[f] = "ok" => disk[f] = "complete"
        /\ dl[f] = "failed" => disk[f] # "partial"

\* C9: download_file_with_retry called with an empty mirror list returns
\* failure without having issued a request.
C9_EmptyMirrorList ==
    \A f \in Files :
        (Returned(f) /\ mirror_urls = << >>) =>
            /\ dl[f] = "failed"
            /\ requests = << >>
            /\ errors = << >>
            /\ last_error = NoError

C9_Witness ==
    /\ pc = "after_tarball"
    /\ mirror_urls = << >>
    /\ calls = << "tarball" >>
    /\ dl["tarball"] = "failed"

Proceed == verified_msg

ProceedWithWarning == warning # << >>

Abort == exit_code = 1

ExactlyOne(a, b, c) ==
    \/ a /\ ~b /\ ~c
    \/ ~a /\ b /\ ~c
    \/ ~a /\ ~b /\ c

\* C10: every run of main terminates; at its end exactly one of proceed
\* (success line printed), proceed-with-warning (warning banner printed) and
\* abort (exit code 1) holds, and the exit code is 0 exactly for the first
\* two; before the end nothing has been decided.
C10_TerminalOutcome ==
    /\ <>(pc = "done")
    /\ [](pc = "done" =>
            /\ exit_code \in {0, 1}
            /\ ExactlyOne(Proceed, ProceedWithWarning, Abort)
            /\ (exit_code = 0 <=> (Proceed \/ ProceedWithWarning)))
    /\ [](pc # "done" =>
            exit_code = -1 /\ ~verified_msg /\ warning = << >>)

\* a run ended by the FileNotFoundError of verify_signature
C10_Witness ==
    /\ pc = "done"
    /\ verified = "raise"
    /\ exit_code = 1
\* the keyserver loop went through the hard-coded list in order, and only a
\* timeout or a failed import was followed by another attempt
KeyserversInOrder ==
    /\ Len(ks_log) <= Len(keyservers)
    /\ \A i \in 1..Len(ks_log) : ks_log[i].keyserver = keyservers[i]
    /\ \A i \in 1..(Len(ks_log) - 1) : ks_log[i].resp \in {"timeout", "failed"}

LastKs == ks_log[Len(ks_log)]

\* import_gpg_keys has returned True exactly when the last keyserver tried
\* imported the keys
FirstSuccessWins ==
    imported = "ok" <=> (ks_log # << >> /\ LastKs.resp = "ok" /\ pc # "import")

GpgAbsent ==
    \/ gpg_verify = "nogpg"
    \/ \E i \in 1..Len(ks_log) : ks_log[i].resp = "nogpg"

\* C12: a run in which gpg was not found, at the key import or at the
\* verification, ends in abort (exit code 1, no warning banner) whatever
\* --allow-insecure is.
C12_GpgAbsentFatal ==
    (pc = "done" /\ GpgAbsent) => (exit_code = 1 /\ warning = << >>)

\* the list of mirrors main would work with
ResultingMirrors ==
    (IF mirror_arg = None THEN << >> ELSE << mirror_arg >>) \o mirrors_cfg

ConfigError == ~keys_exists \/ ~mirrors_exists \/ ResultingMirrors = << >>

\* C13: when gpg-keys.txt or mirrors.txt is missing, or the resulting mirror
\* list is empty, no mirror request and no gpg run is ever made, no stage
\* after the tarball fetch is entered, and the run ends with exit code 1.
C13_ConfigErrorNoNetwork ==
    ConfigError =>
        /\ requests = << >>
        /\ ks_log = << >>
        /\ gpg_verify = None
        /\ Len(calls) <= 1
        /\ pc \in {"read_keys", "read_mirrors", "dl_tarball", "after_tarball",
                   "done"}
        /\ (pc = "done" =>
               exit_code = 1 /\ warning = << >> /\ ~verified_msg)

\* gpg-keys.txt is missing while a mirror would serve both files
C13_Witness ==
    /\ pc = "done"
    /\ ~keys_exists
    /\ mirrors_exists
    /\ mirror_arg # None
    /\ net[mirror_arg]["tarball"] = "ok"
    /\ exit_code = 1
\* C14: once main has built it, mirror_urls is the --mirror URL (when given)
\* followed by the lines of mirrors.txt in file order, and it never changes
\* afterwards; the tarball fetch and the signature fetch both go through it
\* from its first entry on, one entry after the other, so a mirror that
\* failed for the tarball is asked again, at the same position, for the
\* signature.
C14_MirrorListImmutable ==
    /\ [](calls # << >> => mirror_urls = ResultingMirrors)
    /\ [](\A f \in Files : \A i \in 1..Len(ReqsOf(f)) :
              /\ i <= Len(mirror_urls)
              /\ ReqsOf(f)[i].pos = i
              /\ ReqsOf(f)[i].mirror = ResultingMirrors[i])
    /\ [][calls # << >> => mirror_urls' = mirror_urls]_vars

\* the --mirror URL failed for the tarball and is asked first for the
\* signature
C14_Witness ==
    /\ mirror_arg # None
    /\ mirrors_cfg # << >>
    /\ net[mirror_arg]["tarball"] = "error"
    /\ used["tarball"] = 2
    /\ ReqsOf("sig") # << >>
    /\ ReqsOf("sig")[1].mirror = mirror_arg

\* some list entry serves both the tarball and the signature
ServesBoth ==
    \E i \in 1..Len(mirror_urls) :
        \A f \in Files : net[mirror_urls[i]][f] = "ok"

\* gpg did not end the key import with a failure
ImportNotFailed ==
    /\ ~AllKeyserversFailed
    /\ \A i \in 1..Len(ks_log) : ks_log[i].resp # "nogpg"

\* C15: with default flags, when some list entry serves both files, a
\* keyserver imports the keys and gpg finds the signature valid, the run
\* ends in proceed with exit code 0 and both files are complete at their
\* destination paths.
C15_EndToEnd ==
    (/\ pc = "done"
     /\ DefaultFlags
     /\ ConfigPresent
     /\ ServesBoth
     /\ ImportNotFailed
     /\ gpg_verify \notin {"bad", "nogpg"}) =>
        /\ exit_code = 0
        /\ verified_msg
        /\ warning = << >>
        /\ AllSucceeded
        /\ \A f \in Files : disk[f] = "complete"

\* the first list entry fails for both files, the second serves both
C15_Witness ==
    /\ pc = "done"
    /\ DefaultFlags
    /\ Len(mirror_urls) >= 2
    /\ \A f \in Files : net[mirror_urls[1]][f] = "error"
    /\ \A f \in Files : used[f] = 2
    /\ exit_code = 0
    /\ verified_msg

StageOrder == << "tarball", "sig", "import", "verify" >>

Entered(stage) == \E i \in 1..Len(calls) : calls[i] = stage

\* C17: main enters its stages in the order tarball fetch, signature fetch,
\* key import, verification, each at most once; a stage after the tarball
\* fetch is entered only without --skip-verify and after the stage before it
\* succeeded; requests and gpg runs are made only inside their stage, and a
\* stage has returned before the next one makes an attempt.
C17_StagesInOrder ==
    /\ Len(calls) <= Len(StageOrder)
    /\ \A i \in 1..Len(calls) : calls[i] = StageOrder[i]
    /\ Entered("sig") => (~skip_verify /\ dl["tarball"] = "ok")
    /\ Entered("import") => (~skip_verify /\ dl["sig"] = "ok")
    /\ Entered("verify") => (~skip_verify /\ imported = "ok")
    /\ \A f \in Files : ReqsOf(f) # << >> => Entered(f)
    /\ ks_log # << >> => Entered("import")
    /\ gpg_verify # None => Entered("verify")
    /\ \A f \in Files : Returned(f) => Entered(f)
    /\ imported # "pending" => Entered("import")

\* all four stages were entered and both fetches needed a second mirror
C17_Witness ==
    /\ calls = StageOrder
    /\ gpg_verify # None
    /\ Len(ReqsOf("tarball")) = 2
    /\ Len(ReqsOf("sig")) = 2
    /\ Len(ks_log) = 2

\* C18: when the tarball download has failed on every mirror, main ends
\* with exit code 1 whatever --skip-verify and --allow-insecure are; every
\* mirror was asked for the tarball once, and no signature download, key
\* import or verification is attempted.
C18_TarballFailureTerminal ==
    (Returned("tarball") /\ ~Serves("tarball")) =>
        /\ dl["tarball"] = "failed"
        /\ pc \in {"after_tarball", "done"}
        /\ calls = << "tarball" >>
        /\ Len(ReqsOf("tarball")) = Len(mirror_urls)
        /\ ReqsOf("sig") = << >>
        /\ ks_log = << >>
        /\ gpg_verify = None
        /\ (pc = "done" =>
               exit_code = 1 /\ warning = << >> /\ ~verified_msg)

\* both flags set, two mirrors failing for the tarball
C18_Witness ==
    /\ pc = "done"
    /\ skip_verify
    /\ allow_insecure
    /\ Len(mirror_urls) >= 2
    /\ dl["tarball"] = "failed"
    /\ exit_code = 1

\* C19: an attempt of import_gpg_keys on which gpg is not found is the last
\* attempt made and makes the function return failure, also when keyservers
\* are left; after a timeout or a failed import with keyservers left the loop
\* is still running.
C19_GpgNotFoundStopsLoop ==
    \A i \in 1..Len(ks_log) :
        /\ ks_log[i].resp = "nogpg" =>
              /\ i = Len(ks_log)
              /\ imported = "failed"
              /\ pc # "import"
        /\ (ks_log[i].resp \in {"timeout", "failed"}
               /\ i = Len(ks_log) /\ i < Len(keyservers)) =>
              /\ imported = "pending"
              /\ pc = "import"

\* gpg not found on the second keyserver, the third never tried
C19_Witness ==
    /\ Len(ks_log) = 2
    /\ ks_log[1].resp = "timeout"
    /\ ks_log[2].resp = "nogpg"
    /\ imported = "failed"
    /\ pc = "done"
\* the steps that need the keys imported and the signature verified
TrustSteps == { "gpg --recv-keys", "gpg --verify" }

\* the steps of the two builds and the packaging steps
BuildSteps ==
    Range(Amd64Chain) \cup Range(Aarch64Chain)
        \cup { "tar linux-amd64", "tar linux-aarch64", "tar src" }

Ran(n) == dg_status[n] \in {"ok", "failed"}

\* C16: in teste_build a step of build_linux_amd64, of build_linux_aaarch64
\* or of the packaging is run only when both downloads, gpg --recv-keys and
\* gpg --verify succeeded, and the tarball is extracted only when
\* gpg --recv-keys and gpg --verify succeeded.
C16_BuildOnlyVerified ==
    /\ \A n \in BuildSteps :
          Ran(n) => \A t \in TrustSteps \cup HttpSteps : dg_status[t] = "ok"
    /\ Ran("tar -xvf /source.tar") =>
          \A t \in TrustSteps : dg_status[t] = "ok"

\* both builds ran and the source was packaged
C16_Witness ==
    /\ dg_status["amd64: make install"] = "ok"
    /\ dg_status["aarch64: make install"] = "ok"
    /\ dg_status["tar src"] = "ok"

\* the versions of the links that name a tarball
TarballVersions(links) ==
    { n.version :
        n \in { m \in links : m.prefix = "gettext-"
                                /\ m.ext = << ".tar", ".gz" >> } }

\* the page has a table with at least one tarball link
Yields(page) == page.kind = "table" /\ TarballVersions(page.links) # {}

Ascending(s) == \A i \in 1..(Len(s) - 1) : s[i] < s[i + 1]

\* C20: get_versions asks its mirrors in list order; an answer that is an
\* error, has no table or has no tarball link is followed by the next
\* mirror; the first answer with a tarball link ends the loop and its
\* tarball versions (.sig links do not count) are returned, sorted, with
\* exit code 0; when all six mirrors were asked in vain the exit code is 1.
C20_ListVersions ==
    /\ Len(lv_log) <= Len(lv_mirrors)
    /\ \A i \in 1..Len(lv_log) : lv_log[i].url = lv_mirrors[i]
    /\ \A i \in 1..(Len(lv_log) - 1) : ~Yields(lv_log[i].page)
    /\ lv_pc = "loop" =>
          /\ \A i \in 1..Len(lv_log) : ~Yields(lv_log[i].page)
          /\ lv_exit = -1
          /\ lv_result = << >>
    /\ lv_pc = "done" =>
          IF lv_log # << >> /\ Yields(lv_log[Len(lv_log)].page)
          THEN /\ lv_exit = 0
               /\ Range(lv_result) = TarballVersions(lv_log[Len(lv_log)].page.links)
               /\ Ascending(lv_result)
          ELSE /\ lv_exit = 1
               /\ Len(lv_log) = Len(lv_mirrors)
               /\ lv_result = << >>

\* the third mirror answered with two tarballs, after an error and a page
\* that has only a .sig link
C20_Witness ==
    /\ lv_pc = "done"
    /\ Len(lv_log) = 3
    /\ lv_log[1].page.kind = "error"
    /\ lv_log[2].page.kind = "table"
    /\ \E n \in lv_log[2].page.links : LinkSig(n)
    /\ lv_result = << 25, 26 >>
====
